---- MODULE Spec2Model ----
(***************************************************************************)
(* Cursor-leak detector of plpgsql_check (src/src/cursors_leaks.c).        *)
(*                                                                         *)
(* The detector's state is the transaction-scoped hash table `traces`     *)
(* with its guard `traces_lxid`, the three settings, and the pointer each  *)
(* routine activation keeps in its plugin2_info.  The host (PL/pgSQL       *)
(* executor) is modelled by a call stack, the set of open portals and the  *)
(* current local transaction id MyProc->lxid; it drives the three hooks    *)
(* func_setup, stmt_end and func_end.                                      *)
(*                                                                         *)
(* Memory: every store lives in the memory context of the transaction     *)
(* that created it, so `heap[t]` is the store created in transaction t and *)
(* a pointer [store |-> t, key |-> k] is dangling once MyProc->lxid # t.    *)
(***************************************************************************)
EXTENDS Integers, Sequences, FiniteSets, TLC

\* ---------------------------------------------------------------- bounds
MaxLxid  == 2      \* transactions the host runs
MaxDepth == 2      \* nesting of routine activations
MaxCalls == 2      \* routine activations over a run
MaxOpens == 2      \* OPEN statement executions over a run
MaxSets  == 1      \* changes of a setting over a run
MaxNames == 2      \* distinct cursor (portal) names
MaxEvents == 4     \* calls, OPENs, setting changes and commits over a run
MaxCapOpens == 22  \* OPEN executions over a run of the cap scenario
MaxCapOther == 1   \* of which executions of the second OPEN statement
MaxCapClose == 1   \* cursors the cap scenario closes

\* ------------------------------------------------------ program constants
MAX_NAMES_PER_STATEMENT == 20
InvalidLocalTransactionId == 0
NULL == 0
FreeStmtId == -1

\* routine identities (PLpgSQL_function: fn_oid, fn_xmin)
Funcs == { [fn_oid |-> 1, fn_xmin |-> 1],
           [fn_oid |-> 1, fn_xmin |-> 2] }
OpenStmts == {1, 2}          \* stmtid of the OPEN statements of a routine
OtherStmt == 3               \* stmtid used for a statement that is not OPEN
Levels == {"WARNING", "ERROR"}

VARIABLES
  plpgsql_check_cursors_leaks,          \* setting: enabled
  plpgsql_check_cursors_leaks_strict,   \* setting: strict
  plpgsql_check_cursors_leaks_level,    \* setting: severity
  traces_lxid,     \* guard: transaction that owns `traces`
  traces,          \* NULL or the store (index into heap)
  heap,            \* heap[t]: the hash table created in transaction t
  MyProc_lxid,     \* host: current local transaction id
  stack,           \* host: routine activations, innermost last
  use_count,       \* host: func->use_count per routine
  portals,         \* host: portals[n] = OPEN execution that holds name n, or 0
  reports,         \* history: the leak reports emitted so far
  ncalls, nopens,  \* history: activations / OPEN executions so far
  opens,           \* history: opens[e] = [act, lxid, stmtid, level] of OPEN execution e
  nsets,           \* history: changes of a setting so far
  pc,              \* "run", "error_stmt" / "error_end" (an ERROR report of
                   \* stmt_end / func_end is unwinding), "crashed", "stop"
  uaf              \* history: a hook has read a FunctionTrace in freed memory

vars == << plpgsql_check_cursors_leaks, plpgsql_check_cursors_leaks_strict,
           plpgsql_check_cursors_leaks_level, traces_lxid, traces, heap,
           MyProc_lxid, stack, use_count, portals, reports, ncalls, nopens,
           opens, nsets, pc, uaf >>

Names == 1..MaxNames
Lxids == 1..MaxLxid

\* ------------------------------------------------------------ data model
\* FunctionTraceKey
HashKey(func) == [fn_oid |-> func.fn_oid, fn_xmin |-> func.fn_xmin]

\* a FunctionTrace entry as hash_search(HASH_ENTER) leaves it when !found
NewTrace_nonzero(key) ==
  [key |-> key, ncursors |-> 0, cursors_size |-> 10, cursors_traces |-> << >>]
NewTrace(key) ==
  [key |-> key, ncursors |-> 0, cursors_size |-> 0, cursors_traces |-> << >>]

\* the hash table right after hash_create
EmptyStore == [k \in {} |-> NewTrace(k)]
Enter(store, key, entry) ==
  [k \in (DOMAIN store) \cup {key} |-> IF k = key THEN entry ELSE store[k]]

\* plugin2_info: NULL or a FunctionTrace pointer
NullInfo == [store |-> NULL, key |-> [fn_oid |-> 0, fn_xmin |-> 0]]
IsNullInfo(info) == info.store = NULL
Dangling(ftrace, lxid) == ftrace.store # lxid

\* a CursorTrace; exec/act name the OPEN execution and activation that wrote it
Slot(stmtid, rec_level, curname, exec, act) ==
  [stmtid |-> stmtid, rec_level |-> rec_level, curname |-> curname,
   exec |-> exec, act |-> act]
\* pfree(ct->curname); ct->stmtid = -1; ct->curname = NULL;
ClearSlot_keep_stmtid(ct) == [ct EXCEPT !.curname = NULL, !.exec = 0, !.act = 0]
ClearSlot(ct) ==
  [ct EXCEPT !.stmtid = FreeStmtId, !.curname = NULL, !.exec = 0, !.act = 0]

SPI_cursor_find(ps, curname) == ps[curname] # 0

\* ereport(plpgsql_check_cursors_leaks_level, ...): ERROR does not return
Fatal(level) == level = "ERROR"
Report(hook, ct, ps, by) ==
  [hook |-> hook, exec |-> ct.exec, cursor |-> ps[ct.curname],
   name |-> ct.curname, by |-> by]

\* ------------------------------------------------------ get_function_trace
get_function_trace_noguard(func, tr, tlx, hp, lxid) ==
  LET fresh == tr = NULL
      tr1   == IF fresh THEN lxid ELSE tr
      tlx1  == IF fresh THEN lxid ELSE tlx
      hp1   == IF fresh THEN [hp EXCEPT ![lxid] = EmptyStore] ELSE hp
      key   == HashKey(func)
      found == key \in DOMAIN hp1[tr1]
      hp2   == IF found THEN hp1
               ELSE [hp1 EXCEPT ![tr1] = Enter(@, key, NewTrace(key))]
  IN [traces |-> tr1, traces_lxid |-> tlx1, heap |-> hp2,
      ftrace |-> [store |-> tr1, key |-> key]]

get_function_trace(func, tr, tlx, hp, lxid) ==
  LET fresh == tr = NULL \/ tlx # lxid
      tr1   == IF fresh THEN lxid ELSE tr
      tlx1  == IF fresh THEN lxid ELSE tlx
      hp1   == IF fresh THEN [hp EXCEPT ![lxid] = EmptyStore] ELSE hp
      key   == HashKey(func)
      found == key \in DOMAIN hp1[tr1]
      hp2   == IF found THEN hp1
               ELSE [hp1 EXCEPT ![tr1] = Enter(@, key, NewTrace(key))]
  IN [traces |-> tr1, traces_lxid |-> tlx1, heap |-> hp2,
      ftrace |-> [store |-> tr1, key |-> key]]

\* -------------------------------------------------------------- func_setup
\* result: the detector state after the hook and the activation's plugin2_info
func_setup_always(func, enabled, tr, tlx, hp, lxid) ==
  LET r == get_function_trace(func, tr, tlx, hp, lxid)
  IN [traces |-> r.traces, traces_lxid |-> r.traces_lxid,
      heap |-> r.heap, plugin2_info |-> r.ftrace]

func_setup_inverted(func, enabled, tr, tlx, hp, lxid) ==
  IF ~enabled
  THEN LET r == get_function_trace(func, tr, tlx, hp, lxid)
       IN [traces |-> r.traces, traces_lxid |-> r.traces_lxid,
           heap |-> r.heap, plugin2_info |-> r.ftrace]
  ELSE [traces |-> tr, traces_lxid |-> tlx, heap |-> hp,
        plugin2_info |-> NullInfo]

func_setup(func, enabled, tr, tlx, hp, lxid) ==
  IF enabled
  THEN LET r == get_function_trace(func, tr, tlx, hp, lxid)
       IN [traces |-> r.traces, traces_lxid |-> r.traces_lxid,
           heap |-> r.heap, plugin2_info |-> r.ftrace]
  ELSE [traces |-> tr, traces_lxid |-> tlx, heap |-> hp,
        plugin2_info |-> NullInfo]

\* ---------------------------------------------------------------- stmt_end
\* cx: what the hook reads while it scans: [stmtid, use_count, strict, level,
\* ps (the portals), by (the running activation)].
\* acc: [cts, count, free_slot, reps, err]; i is the C index of the slot.
stmt_end_slot_anylevel(acc, i, cx) ==
  LET ct == acc.cts[i + 1]
      a1 == IF ct.curname # NULL /\ ct.stmtid = cx.stmtid
            THEN IF SPI_cursor_find(cx.ps, ct.curname)
                 THEN IF ~cx.strict
                      THEN LET rp == Append(acc.reps, Report("stmt_end", ct, cx.ps, cx.by))
                           IN IF Fatal(cx.level)
                              THEN [acc EXCEPT !.reps = rp, !.err = TRUE]
                              ELSE [acc EXCEPT !.reps = rp, !.cts[i + 1] = ClearSlot(ct)]
                      ELSE [acc EXCEPT !.count = @ + 1]
                 ELSE [acc EXCEPT !.cts[i + 1] = ClearSlot(ct)]
            ELSE acc
  IN IF a1.err THEN a1
     ELSE IF a1.cts[i + 1].stmtid = FreeStmtId /\ a1.free_slot = -1
          THEN [a1 EXCEPT !.free_slot = i]
          ELSE a1

stmt_end_slot_or(acc, i, cx) ==
  LET ct == acc.cts[i + 1]
      a1 == IF ct.curname # NULL /\ ct.stmtid = cx.stmtid
            THEN IF SPI_cursor_find(cx.ps, ct.curname)
                 THEN IF cx.use_count = 1 \/ ~cx.strict
                      THEN LET rp == Append(acc.reps, Report("stmt_end", ct, cx.ps, cx.by))
                           IN IF Fatal(cx.level)
                              THEN [acc EXCEPT !.reps = rp, !.err = TRUE]
                              ELSE [acc EXCEPT !.reps = rp, !.cts[i + 1] = ClearSlot(ct)]
                      ELSE [acc EXCEPT !.count = @ + 1]
                 ELSE [acc EXCEPT !.cts[i + 1] = ClearSlot(ct)]
            ELSE acc
  IN IF a1.err THEN a1
     ELSE IF a1.cts[i + 1].stmtid = FreeStmtId /\ a1.free_slot = -1
          THEN [a1 EXCEPT !.free_slot = i]
          ELSE a1

stmt_end_slot_strictflip(acc, i, cx) ==
  LET ct == acc.cts[i + 1]
      a1 == IF ct.curname # NULL /\ ct.stmtid = cx.stmtid
            THEN IF SPI_cursor_find(cx.ps, ct.curname)
                 THEN IF cx.use_count = 1 /\ cx.strict
                      THEN LET rp == Append(acc.reps, Report("stmt_end", ct, cx.ps, cx.by))
                           IN IF Fatal(cx.level)
                              THEN [acc EXCEPT !.reps = rp, !.err = TRUE]
                              ELSE [acc EXCEPT !.reps = rp, !.cts[i + 1] = ClearSlot(ct)]
                      ELSE [acc EXCEPT !.count = @ + 1]
                 ELSE [acc EXCEPT !.cts[i + 1] = ClearSlot(ct)]
            ELSE acc
  IN IF a1.err THEN a1
     ELSE IF a1.cts[i + 1].stmtid = FreeStmtId /\ a1.free_slot = -1
          THEN [a1 EXCEPT !.free_slot = i]
          ELSE a1

stmt_end_slot_samelevel(acc, i, cx) ==
  LET ct == acc.cts[i + 1]
      a1 == IF ct.curname # NULL /\ ct.stmtid = cx.stmtid /\ ct.rec_level = cx.use_count
            THEN IF SPI_cursor_find(cx.ps, ct.curname)
                 THEN IF cx.use_count = 1 /\ ~cx.strict
                      THEN LET rp == Append(acc.reps, Report("stmt_end", ct, cx.ps, cx.by))
                           IN IF Fatal(cx.level)
                              THEN [acc EXCEPT !.reps = rp, !.err = TRUE]
                              ELSE [acc EXCEPT !.reps = rp, !.cts[i + 1] = ClearSlot(ct)]
                      ELSE [acc EXCEPT !.count = @ + 1]
                 ELSE [acc EXCEPT !.cts[i + 1] = ClearSlot(ct)]
            ELSE acc
  IN IF a1.err THEN a1
     ELSE IF a1.cts[i + 1].stmtid = FreeStmtId /\ a1.free_slot = -1
          THEN [a1 EXCEPT !.free_slot = i]
          ELSE a1

stmt_end_slot(acc, i, cx) ==
  LET ct == acc.cts[i + 1]
      a1 == IF ct.curname # NULL /\ ct.stmtid = cx.stmtid
            THEN IF SPI_cursor_find(cx.ps, ct.curname)
                 THEN IF cx.use_count = 1 /\ ~cx.strict
                      THEN LET rp == Append(acc.reps, Report("stmt_end", ct, cx.ps, cx.by))
                           IN IF Fatal(cx.level)
                              THEN [acc EXCEPT !.reps = rp, !.err = TRUE]
                              ELSE [acc EXCEPT !.reps = rp, !.cts[i + 1] = ClearSlot(ct)]
                      ELSE [acc EXCEPT !.count = @ + 1]
                 ELSE [acc EXCEPT !.cts[i + 1] = ClearSlot(ct)]
            ELSE acc
  IN IF a1.err THEN a1
     ELSE IF a1.cts[i + 1].stmtid = FreeStmtId /\ a1.free_slot = -1
          THEN [a1 EXCEPT !.free_slot = i]
          ELSE a1

RECURSIVE stmt_end_scan(_, _, _, _)
stmt_end_scan(acc, i, n, cx) ==
  IF i >= n \/ acc.err THEN acc
  ELSE stmt_end_scan(stmt_end_slot(acc, i, cx), i + 1, n, cx)

\* the part of stmt_end after the scan: record the cursor just opened
stmt_end_record_nocap(ft, acc, cx, curname, exec) ==
  LET new == Slot(cx.stmtid, cx.use_count, curname, exec, cx.by)
  IN IF acc.free_slot # -1
     THEN [ft EXCEPT !.cursors_traces = [acc.cts EXCEPT ![acc.free_slot + 1] = new]]
     ELSE [ft EXCEPT !.cursors_size = IF ft.ncursors = ft.cursors_size
                                      THEN (IF ft.cursors_size > 0
                                            THEN ft.cursors_size + 10 ELSE 10)
                                      ELSE @,
                     !.cursors_traces = Append(acc.cts, new),
                     !.ncursors = @ + 1]

stmt_end_record_noreuse(ft, acc, cx, curname, exec) ==
  LET new == Slot(cx.stmtid, cx.use_count, curname, exec, cx.by)
  IN IF acc.count < MAX_NAMES_PER_STATEMENT
     THEN [ft EXCEPT !.cursors_size = IF ft.ncursors = ft.cursors_size
                                      THEN (IF ft.cursors_size > 0
                                            THEN ft.cursors_size + 10 ELSE 10)
                                      ELSE @,
                     !.cursors_traces = Append(acc.cts, new),
                     !.ncursors = @ + 1]
     ELSE [ft EXCEPT !.cursors_traces = acc.cts]

stmt_end_record(ft, acc, cx, curname, exec) ==
  LET new == Slot(cx.stmtid, cx.use_count, curname, exec, cx.by)
  IN IF acc.count < MAX_NAMES_PER_STATEMENT
     THEN IF acc.free_slot # -1
          THEN [ft EXCEPT !.cursors_traces = [acc.cts EXCEPT ![acc.free_slot + 1] = new]]
          ELSE [ft EXCEPT !.cursors_size = IF ft.ncursors = ft.cursors_size
                                           THEN (IF ft.cursors_size > 0
                                                 THEN ft.cursors_size + 10 ELSE 10)
                                           ELSE @,
                          !.cursors_traces = Append(acc.cts, new),
                          !.ncursors = @ + 1]
     ELSE [ft EXCEPT !.cursors_traces = acc.cts]

\* the OPEN branch of stmt_end on the FunctionTrace ft
stmt_end_open(ft, cx, curname, exec) ==
  LET acc == stmt_end_scan([cts |-> ft.cursors_traces, count |-> 0,
                            free_slot |-> -1, reps |-> << >>, err |-> FALSE],
                           0, ft.ncursors, cx)
  IN [ft   |-> IF acc.err THEN [ft EXCEPT !.cursors_traces = acc.cts]
               ELSE stmt_end_record(ft, acc, cx, curname, exec),
      reps |-> acc.reps,
      err  |-> acc.err]

\* stmt_end: the set of outcomes of the hook for the activation `frame`.
\* st: [traces, traces_lxid, heap]; isopen: stmt->cmd_type == PLPGSQL_STMT_OPEN.
\* Reading a FunctionTrace of a store whose transaction is over reads freed
\* memory: the build either faults or still finds the old bytes there.
stmt_end_openonly(frame, isopen, cx, curname, exec, st, lxid) ==
  IF frame.plugin2_info = NullInfo
  THEN { [traces |-> st.traces, traces_lxid |-> st.traces_lxid, heap |-> st.heap,
          plugin2_info |-> frame.plugin2_info, reps |-> << >>,
          pc |-> "run", uaf |-> FALSE] }
  ELSE
    LET r  == IF isopen /\ st.traces_lxid # lxid
              THEN get_function_trace(frame.func, st.traces, st.traces_lxid, st.heap, lxid)
              ELSE [traces |-> st.traces, traces_lxid |-> st.traces_lxid,
                    heap |-> st.heap, ftrace |-> frame.plugin2_info]
        ftrace == r.ftrace
        same == [traces |-> r.traces, traces_lxid |-> r.traces_lxid, heap |-> r.heap,
                 plugin2_info |-> ftrace, reps |-> << >>, pc |-> "run", uaf |-> FALSE]
    IN IF ~isopen THEN { same }
       ELSE
         LET o == stmt_end_open(r.heap[ftrace.store][ftrace.key], cx, curname, exec)
             done == [same EXCEPT !.heap[ftrace.store][ftrace.key] = o.ft,
                                  !.reps = o.reps,
                                  !.pc = IF o.err THEN "error_stmt" ELSE "run",
                                  !.uaf = Dangling(ftrace, lxid)]
         IN IF Dangling(ftrace, lxid)
            THEN { done, [same EXCEPT !.pc = "crashed", !.uaf = TRUE] }
            ELSE { done }

stmt_end(frame, isopen, cx, curname, exec, st, lxid) ==
  IF frame.plugin2_info = NullInfo
  THEN { [traces |-> st.traces, traces_lxid |-> st.traces_lxid, heap |-> st.heap,
          plugin2_info |-> frame.plugin2_info, reps |-> << >>,
          pc |-> "run", uaf |-> FALSE] }
  ELSE
    LET r  == IF st.traces_lxid # lxid
              THEN get_function_trace(frame.func, st.traces, st.traces_lxid, st.heap, lxid)
              ELSE [traces |-> st.traces, traces_lxid |-> st.traces_lxid,
                    heap |-> st.heap, ftrace |-> frame.plugin2_info]
        ftrace == r.ftrace
        same == [traces |-> r.traces, traces_lxid |-> r.traces_lxid, heap |-> r.heap,
                 plugin2_info |-> ftrace, reps |-> << >>, pc |-> "run", uaf |-> FALSE]
    IN IF ~isopen THEN { same }
       ELSE
         LET o == stmt_end_open(r.heap[ftrace.store][ftrace.key], cx, curname, exec)
             done == [same EXCEPT !.heap[ftrace.store][ftrace.key] = o.ft,
                                  !.reps = o.reps,
                                  !.pc = IF o.err THEN "error_stmt" ELSE "run",
                                  !.uaf = Dangling(ftrace, lxid)]
         IN IF Dangling(ftrace, lxid)
            THEN { done, [same EXCEPT !.pc = "crashed", !.uaf = TRUE] }
            ELSE { done }

\* ---------------------------------------------------------------- func_end
func_end_slot_nostrict(acc, i, cx) ==
  LET ct == acc.cts[i + 1]
  IN IF ct.curname # NULL /\ ct.rec_level = cx.use_count
     THEN IF SPI_cursor_find(cx.ps, ct.curname)
          THEN LET rp == Append(acc.reps, Report("func_end", ct, cx.ps, cx.by))
               IN IF Fatal(cx.level)
                  THEN [acc EXCEPT !.reps = rp, !.err = TRUE]
                  ELSE [acc EXCEPT !.reps = rp, !.cts[i + 1] = ClearSlot(ct)]
          ELSE [acc EXCEPT !.cts[i + 1] = ClearSlot(ct)]
     ELSE acc

func_end_slot_anylevel(acc, i, cx) ==
  LET ct == acc.cts[i + 1]
  IN IF ct.curname # NULL
     THEN IF SPI_cursor_find(cx.ps, ct.curname)
          THEN IF cx.strict
               THEN LET rp == Append(acc.reps, Report("func_end", ct, cx.ps, cx.by))
                    IN IF Fatal(cx.level)
                       THEN [acc EXCEPT !.reps = rp, !.err = TRUE]
                       ELSE [acc EXCEPT !.reps = rp, !.cts[i + 1] = ClearSlot(ct)]
               ELSE acc
          ELSE [acc EXCEPT !.cts[i + 1] = ClearSlot(ct)]
     ELSE acc

func_end_slot(acc, i, cx) ==
  LET ct == acc.cts[i + 1]
  IN IF ct.curname # NULL /\ ct.rec_level = cx.use_count
     THEN IF SPI_cursor_find(cx.ps, ct.curname)
          THEN IF cx.strict
               THEN LET rp == Append(acc.reps, Report("func_end", ct, cx.ps, cx.by))
                    IN IF Fatal(cx.level)
                       THEN [acc EXCEPT !.reps = rp, !.err = TRUE]
                       ELSE [acc EXCEPT !.reps = rp, !.cts[i + 1] = ClearSlot(ct)]
               ELSE acc
          ELSE [acc EXCEPT !.cts[i + 1] = ClearSlot(ct)]
     ELSE acc

RECURSIVE func_end_scan(_, _, _, _)
func_end_scan(acc, i, n, cx) ==
  IF i >= n \/ acc.err THEN acc
  ELSE func_end_scan(func_end_slot(acc, i, cx), i + 1, n, cx)

\* func_end: the set of outcomes of the hook for the activation `frame`
func_end(frame, cx, st, lxid) ==
  LET ftrace == frame.plugin2_info
      same == [traces |-> st.traces, traces_lxid |-> st.traces_lxid, heap |-> st.heap,
               plugin2_info |-> ftrace, reps |-> << >>, pc |-> "run", uaf |-> FALSE]
  IN IF ftrace = NullInfo \/ st.traces_lxid # lxid THEN { same }
     ELSE
       LET ft  == st.heap[ftrace.store][ftrace.key]
           acc == func_end_scan([cts |-> ft.cursors_traces, reps |-> << >>,
                                 err |-> FALSE], 0, ft.ncursors, cx)
           done == [same EXCEPT !.heap[ftrace.store][ftrace.key].cursors_traces = acc.cts,
                                !.reps = acc.reps,
                                !.pc = IF acc.err THEN "error_end" ELSE "run",
                                !.uaf = Dangling(ftrace, lxid)]
       IN IF Dangling(ftrace, lxid)
          THEN { done, [same EXCEPT !.pc = "crashed", !.uaf = TRUE] }
          ELSE { done }

\* ------------------------------------------------------------------- host
Top == stack[Len(stack)]
Detector == [traces |-> traces, traces_lxid |-> traces_lxid, heap |-> heap]
NoPortals == [n \in Names |-> 0]

\* what the hooks of the running activation read, with the portals ps
Ctx(stmtid, ps, strict, level) ==
  [stmtid |-> stmtid, use_count |-> use_count[Top.func], strict |-> strict,
   level |-> level, ps |-> ps, by |-> Top.act]

Init ==
  /\ plpgsql_check_cursors_leaks \in BOOLEAN
  /\ plpgsql_check_cursors_leaks_strict \in BOOLEAN
  /\ plpgsql_check_cursors_leaks_level \in Levels
  /\ traces_lxid = InvalidLocalTransactionId
  /\ traces = NULL
  /\ heap = [t \in Lxids |-> EmptyStore]
  /\ MyProc_lxid = 1
  /\ stack = << >>
  /\ use_count = [f \in Funcs |-> 0]
  /\ portals = NoPortals
  /\ reports = << >>
  /\ ncalls = 0
  /\ nopens = 0
  /\ opens = << >>
  /\ nsets = 0
  /\ pc = "run"
  /\ uaf = FALSE

\* the detector and the running activation after a hook outcome o
Outcome(o) ==
  /\ traces' = o.traces
  /\ traces_lxid' = o.traces_lxid
  /\ heap' = o.heap
  /\ reports' = reports \o o.reps
  /\ pc' = o.pc
  /\ uaf' = (uaf \/ o.uaf)

SettingsUnchanged ==
  UNCHANGED << plpgsql_check_cursors_leaks, plpgsql_check_cursors_leaks_strict,
               plpgsql_check_cursors_leaks_level, nsets >>

\* the host calls a routine: func->use_count++, then the func_setup hook
Call(f) ==
  /\ pc = "run"
  /\ Len(stack) < MaxDepth
  /\ ncalls < MaxCalls
  /\ LET r == func_setup(f, plpgsql_check_cursors_leaks,
                         traces, traces_lxid, heap, MyProc_lxid)
     IN /\ traces' = r.traces
        /\ traces_lxid' = r.traces_lxid
        /\ heap' = r.heap
        /\ stack' = Append(stack, [func |-> f, plugin2_info |-> r.plugin2_info,
                                   act |-> ncalls + 1,
                                   en |-> plpgsql_check_cursors_leaks])
  /\ use_count' = [use_count EXCEPT ![f] = @ + 1]
  /\ ncalls' = ncalls + 1
  /\ SettingsUnchanged
  /\ UNCHANGED << MyProc_lxid, portals, reports, nopens, opens, pc, uaf >>

\* the stmt_end hook of the running activation after a statement that is not
\* OPEN; lxid, ps, strict, level are the values the statement left
AfterStmt(lxid, ps, strict, level) ==
  \E o \in stmt_end(Top, FALSE, Ctx(OtherStmt, ps, strict, level), NULL, 0,
                    Detector, lxid) :
     /\ Outcome(o)
     /\ stack' = [stack EXCEPT ![Len(stack)].plugin2_info = o.plugin2_info]

\* OPEN: the portal is created, then the stmt_end hook runs
StmtOpenUpTo(stmtid, curname, maxopens) ==
  /\ pc = "run"
  /\ stack # << >>
  /\ nopens < maxopens
  /\ portals[curname] = 0
  /\ portals' = [portals EXCEPT ![curname] = nopens + 1]
  /\ nopens' = nopens + 1
  /\ opens' = Append(opens, [act |-> Top.act, lxid |-> MyProc_lxid, stmtid |-> stmtid,
                            level |-> use_count[Top.func]])
  /\ \E o \in stmt_end(Top, TRUE,
                       Ctx(stmtid, portals', plpgsql_check_cursors_leaks_strict,
                           plpgsql_check_cursors_leaks_level),
                       curname, nopens + 1, Detector, MyProc_lxid) :
        /\ Outcome(o)
        /\ stack' = [stack EXCEPT ![Len(stack)].plugin2_info = o.plugin2_info]
  /\ SettingsUnchanged
  /\ UNCHANGED << MyProc_lxid, use_count, ncalls >>

StmtOpen(stmtid, curname) == StmtOpenUpTo(stmtid, curname, MaxOpens)

\* CLOSE: the portal is dropped, then the stmt_end hook runs
StmtClose(curname) ==
  /\ pc = "run"
  /\ stack # << >>
  /\ portals[curname] # 0
  /\ portals' = [portals EXCEPT ![curname] = 0]
  /\ AfterStmt(MyProc_lxid, portals', plpgsql_check_cursors_leaks_strict,
               plpgsql_check_cursors_leaks_level)
  /\ SettingsUnchanged
  /\ UNCHANGED << MyProc_lxid, use_count, ncalls, nopens, opens >>

\* any other statement that changes nothing the detector reads
StmtOther ==
  /\ pc = "run"
  /\ stack # << >>
  /\ AfterStmt(MyProc_lxid, portals, plpgsql_check_cursors_leaks_strict,
               plpgsql_check_cursors_leaks_level)
  /\ SettingsUnchanged
  /\ UNCHANGED << MyProc_lxid, use_count, portals, ncalls, nopens, opens >>

\* COMMIT / ROLLBACK inside a procedure: the transaction ends, its portals are
\* dropped and its memory contexts freed, the next transaction starts
StmtCommit ==
  /\ pc = "run"
  /\ stack # << >>
  /\ MyProc_lxid < MaxLxid
  /\ MyProc_lxid' = MyProc_lxid + 1
  /\ portals' = NoPortals
  /\ AfterStmt(MyProc_lxid', portals', plpgsql_check_cursors_leaks_strict,
               plpgsql_check_cursors_leaks_level)
  /\ SettingsUnchanged
  /\ UNCHANGED << use_count, ncalls, nopens, opens >>

\* a statement that changes one setting (SET, set_config)
StmtSet(enabled, strict, level) ==
  /\ pc = "run"
  /\ stack # << >>
  /\ nsets < MaxSets
  /\ Cardinality({ i \in 1..3 :
         << enabled, strict, level >>[i] #
         << plpgsql_check_cursors_leaks, plpgsql_check_cursors_leaks_strict,
            plpgsql_check_cursors_leaks_level >>[i] }) = 1
  /\ plpgsql_check_cursors_leaks' = enabled
  /\ plpgsql_check_cursors_leaks_strict' = strict
  /\ plpgsql_check_cursors_leaks_level' = level
  /\ nsets' = nsets + 1
  /\ AfterStmt(MyProc_lxid, portals, strict, level)
  /\ UNCHANGED << MyProc_lxid, use_count, portals, ncalls, nopens, opens >>

\* the routine returns: the func_end hook, then func->use_count--
Return ==
  /\ pc = "run"
  /\ stack # << >>
  /\ \E o \in func_end(Top, Ctx(0, portals, plpgsql_check_cursors_leaks_strict,
                               plpgsql_check_cursors_leaks_level),
                       Detector, MyProc_lxid) :
        /\ Outcome(o)
        /\ IF o.pc = "run"
           THEN /\ stack' = SubSeq(stack, 1, Len(stack) - 1)
                /\ use_count' = [use_count EXCEPT ![Top.func] = @ - 1]
           ELSE UNCHANGED << stack, use_count >>
  /\ SettingsUnchanged
  /\ UNCHANGED << MyProc_lxid, portals, ncalls, nopens, opens >>

\* between top-level commands: the transaction ends
TopCommit ==
  /\ pc = "run"
  /\ stack = << >>
  /\ MyProc_lxid < MaxLxid
  /\ MyProc_lxid' = MyProc_lxid + 1
  /\ portals' = NoPortals
  /\ SettingsUnchanged
  /\ UNCHANGED << traces, traces_lxid, heap, stack, use_count, reports,
                  ncalls, nopens, opens, pc, uaf >>

\* an ERROR report unwinds the stack: the frames above depth k are left
\* without func_end (func_end_aborted is not registered) and their use_count
\* is decremented.  k = 0: nothing catches the error, the transaction aborts.
\* k > 0: an exception block of frame k catches it; the rollback of its
\* subtransaction drops the portal of the failed OPEN and the portals the
\* unwound activations had opened.
RECURSIVE Unwound(_, _, _)
Unwound(uc, stk, k) ==
  IF Len(stk) <= k THEN uc
  ELSE Unwound([uc EXCEPT ![stk[Len(stk)].func] = @ - 1],
               SubSeq(stk, 1, Len(stk) - 1), k)

RolledBack(e, k) ==
  \/ pc = "error_stmt" /\ e = nopens
  \/ \E j \in (k + 1)..Len(stack) : stack[j].act = opens[e].act

ErrorUnwind(k) ==
  /\ pc \in {"error_stmt", "error_end"}
  /\ k \in 0..(IF pc = "error_end" THEN Len(stack) - 1 ELSE Len(stack))
  /\ stack' = SubSeq(stack, 1, k)
  /\ use_count' = Unwound(use_count, stack, k)
  /\ IF k = 0
     THEN /\ portals' = NoPortals
          /\ IF MyProc_lxid < MaxLxid
             THEN MyProc_lxid' = MyProc_lxid + 1 /\ pc' = "run"
             ELSE MyProc_lxid' = MyProc_lxid /\ pc' = "stop"
     ELSE /\ portals' = [n \in Names |->
                           IF portals[n] # 0 /\ RolledBack(portals[n], k)
                           THEN 0 ELSE portals[n]]
          /\ pc' = "run"
          /\ UNCHANGED MyProc_lxid
  /\ SettingsUnchanged
  /\ UNCHANGED << traces, traces_lxid, heap, reports, ncalls, nopens, opens, uaf >>

\* the length of a run is bounded through the number of its calls, OPENs,
\* setting changes and commits
Budget == ncalls + nopens + nsets + (MyProc_lxid - 1) < MaxEvents

Next ==
  \/ Budget /\ \E f \in Funcs : Call(f)
  \/ Budget /\ \E s \in OpenStmts, c \in Names : StmtOpen(s, c)
  \/ \E c \in Names : StmtClose(c)
  \/ StmtOther
  \/ Budget /\ StmtCommit
  \/ Budget /\ \E e \in BOOLEAN, s \in BOOLEAN, l \in Levels : StmtSet(e, s, l)
  \/ Return
  \/ Budget /\ TopCommit
  \/ \E k \in 0..MaxDepth : ErrorUnwind(k)

Spec == Init /\ [][Next]_vars

\* ------------------------------------------------------- the cap scenario
\* One routine, called once, whose body is a loop around OPEN statement 1,
\* followed by OPEN statement 2 executed at most MaxCapOther times.  Every
\* OPEN gets a portal name of its own (the host generates the names of
\* unnamed portals), so the cursors left open stay open; the routine may
\* close at most MaxCapClose of them, each right after the OPEN that opened
\* it, change strict once the loop has run
\* MAX_NAMES_PER_STATEMENT times, and return.
CapFunc == [fn_oid |-> 1, fn_xmin |-> 1]
CapNames == 1..MaxCapOpens

CapInit ==
  /\ plpgsql_check_cursors_leaks = TRUE
  /\ plpgsql_check_cursors_leaks_strict \in BOOLEAN
  /\ plpgsql_check_cursors_leaks_level = "WARNING"
  /\ traces_lxid = InvalidLocalTransactionId
  /\ traces = NULL
  /\ heap = [t \in Lxids |-> EmptyStore]
  /\ MyProc_lxid = 1
  /\ stack = << >>
  /\ use_count = [f \in Funcs |-> 0]
  /\ portals = [n \in CapNames |-> 0]
  /\ reports = << >>
  /\ ncalls = 0
  /\ nopens = 0
  /\ opens = << >>
  /\ nsets = 0
  /\ pc = "run"
  /\ uaf = FALSE

CapCall ==
  /\ ncalls = 0
  /\ Call(CapFunc)

CapOpen(stmtid) ==
  /\ stmtid = 2 =>
        /\ nopens >= MAX_NAMES_PER_STATEMENT
        /\ Cardinality({ e \in 1..nopens : opens[e].stmtid = 2 }) < MaxCapOther
  /\ StmtOpenUpTo(stmtid, nopens + 1, MaxCapOpens)

CapClose(curname) ==
  /\ portals[curname] = nopens
  /\ nopens - Cardinality({ n \in CapNames : portals[n] # 0 }) < MaxCapClose
  /\ StmtClose(curname)

CapSet ==
  /\ nopens >= MAX_NAMES_PER_STATEMENT
  /\ StmtSet(plpgsql_check_cursors_leaks, ~plpgsql_check_cursors_leaks_strict,
          plpgsql_check_cursors_leaks_level)

CapNext ==
  \/ CapCall
  \/ \E s \in OpenStmts : CapOpen(s)
  \/ \E c \in CapNames : CapClose(c)
  \/ CapSet
  \/ Return

SpecCap == CapInit /\ [][CapNext]_vars

TypeOK ==
  /\ traces \in {NULL} \cup Lxids
  /\ traces_lxid \in {InvalidLocalTransactionId} \cup Lxids
  /\ MyProc_lxid \in Lxids
  /\ Len(stack) <= MaxDepth
  /\ pc \in {"run", "error_stmt", "error_end", "crashed", "stop"}

\* ------------------------------------------------------- reading the state
Live(ct) == ct.curname # NULL
Rec(info) == heap[info.store][info.key]
\* the portal that OPEN execution e created still exists
CursorOpenIn(ps, e) == \E n \in DOMAIN ps : ps[n] = e
CursorOpen(e) == CursorOpenIn(portals, e)
\* every (store, routine, index) that holds a slot
MaxSlots == MaxOpens + MaxCapOpens
SlotIds == { id \in Lxids \X Funcs \X (1..MaxSlots) :
               /\ id[2] \in DOMAIN heap[id[1]]
               /\ id[3] <= Len(heap[id[1]][id[2]].cursors_traces) }
SlotAt(id) == heap[id[1]][id[2]].cursors_traces[id[3]]
NewReports == SubSeq(reports', Len(reports) + 1, Len(reports'))

\* the kinds of step
IsSetup == ncalls' = ncalls + 1
IsOpen == nopens' = nopens + 1
IsTeardown ==
  /\ pc = "run" /\ stack # << >> /\ nopens' = nopens /\ ncalls' = ncalls
  /\ \/ Len(stack') = Len(stack) - 1
     \/ pc' \in {"error_end", "crashed"}
\* a hook of the running activation ran in this step (Setup of a callee excluded)
IsHookOfTop == pc = "run" /\ stack # << >> /\ ncalls' = ncalls

\* C1 (transaction isolation): a Setup that runs with detection enabled
\* leaves the guard equal to the current transaction marker and associates a
\* record of the current transaction's store; when the guard differed from
\* the marker (or no store existed) that store is fresh and holds only that
\* empty record; in every case the record holds no slot that was recorded in
\* an earlier transaction.
C1_TransactionIsolation ==
  [][ (IsSetup /\ plpgsql_check_cursors_leaks) =>
        LET info == stack'[Len(stack')].plugin2_info
            rec  == heap'[info.store][info.key]
        IN /\ info.store = MyProc_lxid
           /\ traces' = MyProc_lxid
           /\ traces_lxid' = MyProc_lxid
           /\ (traces = NULL \/ traces_lxid # MyProc_lxid) =>
                 /\ DOMAIN heap'[traces'] = {info.key}
                 /\ rec.ncursors = 0
                 /\ rec.cursors_traces = << >>
           /\ \A i \in 1..Len(rec.cursors_traces) :
                 Live(rec.cursors_traces[i]) =>
                    opens[rec.cursors_traces[i].exec].lxid = MyProc_lxid
    ]_vars

\* a Setup in transaction 2 has associated an empty record while the store of
\* transaction 1 still holds a slot recorded for the same routine
C1_Witness ==
  /\ MyProc_lxid = 2
  /\ Len(stack) = 1
  /\ Top.act = ncalls
  /\ Top.plugin2_info.store = 2
  /\ Rec(Top.plugin2_info).ncursors = 0
  /\ Top.plugin2_info.key \in DOMAIN heap[1]
  /\ \E i \in 1..Len(heap[1][Top.plugin2_info.key].cursors_traces) :
        LET ct == heap[1][Top.plugin2_info.key].cursors_traces[i]
        IN Live(ct) /\ opens[ct.exec].lxid = 1

\* C2 (closed cursors are never reported): every report is emitted for a slot
\* whose own cursor, the one its OPEN execution created, is still open; a slot
\* whose cursor was closed is never reported, also when a later OPEN has
\* created a cursor of the same name.
C2_NoReportForClosedCursor ==
  \A i \in 1..Len(reports) : reports[i].cursor = reports[i].exec

\* the scenario of a single activation at use-level 1 under constant settings
SingleActivation(strict) ==
  /\ pc = "run"
  /\ ncalls = 1
  /\ Len(stack) = 1
  /\ nsets = 0
  /\ plpgsql_check_cursors_leaks
  /\ plpgsql_check_cursors_leaks_strict = strict
\* the executions of OPEN statement s by activation a so far
ExecsOf(a, s) == { e \in 1..nopens : opens[e].act = a /\ opens[e].stmtid = s }
NewReportsFor(e) == { i \in 1..Len(NewReports) : NewReports[i].exec = e }

\* C3 (non-strict early detection): in a single activation at use-level 1
\* with enabled=true and strict=false, the first execution of an OPEN
\* statement emits no report; its second execution, the first cursor being
\* still open, emits exactly one report, from stmt_end and for the first
\* cursor; the Teardown of the activation emits none.
C3_NonStrictEarlyDetection ==
  [][ /\ (IsOpen /\ SingleActivation(FALSE)) =>
           LET prior == ExecsOf(Top.act, opens'[nopens'].stmtid)
           IN /\ prior = {} => reports' = reports
              /\ \A e1 \in prior :
                    (prior = {e1} /\ CursorOpen(e1)) =>
                       /\ Len(NewReports) = 1
                       /\ NewReports[1].hook = "stmt_end"
                       /\ NewReports[1].exec = e1
                       /\ NewReports[1].cursor = e1
      /\ (IsTeardown /\ SingleActivation(FALSE)) => reports' = reports
    ]_vars

\* the activation has returned after two executions of one OPEN statement:
\* one report, from the stmt_end of the second
C3_Witness ==
  /\ ncalls = 1 /\ nsets = 0 /\ stack = << >> /\ pc = "run"
  /\ plpgsql_check_cursors_leaks /\ ~plpgsql_check_cursors_leaks_strict
  /\ nopens = 2
  /\ opens[1].stmtid = opens[2].stmtid
  /\ Len(reports) = 1
  /\ reports[1].hook = "stmt_end" /\ reports[1].exec = 1 /\ reports[1].cursor = 1

C5_RecursionIsolation ==
  [][ (IsHookOfTop /\ use_count[Top.func] >= 2) =>
        \A id \in SlotIds :
           ( /\ id[2] = HashKey(Top.func)
             /\ Live(SlotAt(id))
             /\ SlotAt(id).rec_level < use_count[Top.func]
             /\ CursorOpenIn(portals, SlotAt(id).exec)
             /\ CursorOpenIn(portals', SlotAt(id).exec) ) =>
                /\ id[2] \in DOMAIN heap'[id[1]]
                /\ id[3] <= Len(heap'[id[1]][id[2]].cursors_traces)
                /\ heap'[id[1]][id[2]].cursors_traces[id[3]] = SlotAt(id)
    ]_vars

\* the inner activation has recorded a slot at use-level 2 for the statement
\* the outer one had executed, closed its cursor and returned: its slot is
\* free, the outer slot is still tracked and its cursor still open
C5_Witness ==
  /\ pc = "run" /\ Len(stack) = 1 /\ ncalls = 2 /\ nopens = 2
  /\ opens[1].stmtid = opens[2].stmtid
  /\ opens[1].act = 1 /\ opens[2].act = 2 /\ Top.act = 1
  /\ ~IsNullInfo(Top.plugin2_info)
  /\ \E i, j \in 1..Len(Rec(Top.plugin2_info).cursors_traces) :
        LET cts == Rec(Top.plugin2_info).cursors_traces
        IN /\ Live(cts[i]) /\ cts[i].exec = 1 /\ cts[i].rec_level = 1
           /\ CursorOpen(1)
           /\ ~Live(cts[j]) /\ cts[j].rec_level = 2

\* C7 (disabled at Setup): an activation whose Setup ran while enabled=false
\* has no trace record, and its StatementEnd and Teardown hooks change neither
\* the store, its guard, any record or slot, nor the reports, whatever the
\* settings are by then.
C7_DisabledAtSetup ==
  [][ (IsHookOfTop /\ ~Top.en) =>
        /\ IsNullInfo(Top.plugin2_info)
        /\ UNCHANGED << traces, traces_lxid, heap, reports >>
        /\ Len(stack') = Len(stack) => IsNullInfo(stack'[Len(stack')].plugin2_info)
    ]_vars

\* an activation set up while disabled holds an open cursor after detection
\* has been enabled, and nothing has been created or reported
C7_Witness ==
  /\ pc = "run" /\ stack # << >> /\ ~Top.en
  /\ plpgsql_check_cursors_leaks
  /\ \E e \in 1..nopens : opens[e].act = Top.act /\ CursorOpen(e)
  /\ traces = NULL
  /\ reports = << >>

\* the OPEN execution e is held by a slot of some record
Tracked(hp, e) ==
  \E t \in Lxids : \E k \in DOMAIN hp[t] :
     \E i \in 1..Len(hp[t][k].cursors_traces) : hp[t][k].cursors_traces[i].exec = e
BelowCap ==
  \A t \in Lxids : \A k \in DOMAIN heap[t] :
     heap[t][k].ncursors < MAX_NAMES_PER_STATEMENT

\* C8 as stated (disabled mode read at hook time): a StatementEnd or Teardown
\* that runs while enabled=false tracks no cursor and emits no report.
C8_DisabledAtHookTime ==
  [][ (IsHookOfTop /\ ~plpgsql_check_cursors_leaks') =>
        /\ reports' = reports
        /\ IsOpen => ~Tracked(heap', nopens')
    ]_vars

\* C8 as amended: enabled is read by Setup only.  A StatementEnd or Teardown
\* that runs while enabled=false does nothing when the activation's Setup ran
\* while enabled=false; when Setup ran while enabled=true the hooks run as
\* usual: an OPEN whose stmt_end completes below the cap is recorded.
C8_EnabledReadAtSetup ==
  [][ (IsHookOfTop /\ ~plpgsql_check_cursors_leaks') =>
        IF ~Top.en
        THEN reports' = reports /\ heap' = heap
        ELSE (IsOpen /\ pc' = "run" /\ BelowCap) => Tracked(heap', nopens')
    ]_vars

\* detection was switched off after Setup and the activation's OPEN executions
\* are tracked and have been reported all the same
C8_Witness ==
  /\ pc = "run" /\ stack # << >> /\ Top.en
  /\ ~plpgsql_check_cursors_leaks
  /\ nopens = 2 /\ opens[1].act = Top.act /\ opens[2].act = Top.act
  /\ Tracked(heap, 2)
  /\ Len(reports) = 1 /\ reports[1].exec = 1 /\ reports[1].by = Top.act

\* C9 (one diagnostic per leaked cursor): no open cursor is reported twice.
C9_OneReportPerCursor ==
  \A i, j \in 1..Len(reports) :
     i < j => reports[i].cursor # reports[j].cursor

\* C10 (non-strict Teardown is silent): with strict=false a Teardown emits no
\* report, leaves every slot whose cursor exists unchanged, and changes a slot
\* only by clearing one of its own record and use-level whose cursor no longer
\* exists; so a single activation that executes one OPEN and never closes the
\* cursor emits no report.
C10_NonStrictTeardownSilent ==
  /\ [][ (IsTeardown /\ ~plpgsql_check_cursors_leaks_strict) =>
           /\ reports' = reports
           /\ \A t \in Lxids :
                 /\ DOMAIN heap'[t] = DOMAIN heap[t]
                 /\ \A k \in DOMAIN heap[t] :
                       /\ heap'[t][k].ncursors = heap[t][k].ncursors
                       /\ heap'[t][k].cursors_size = heap[t][k].cursors_size
                       /\ Len(heap'[t][k].cursors_traces) = Len(heap[t][k].cursors_traces)
           /\ \A id \in SlotIds :
                 LET ct  == SlotAt(id)
                     ct2 == heap'[id[1]][id[2]].cursors_traces[id[3]]
                 IN /\ (Live(ct) /\ SPI_cursor_find(portals, ct.curname)) => ct2 = ct
                    /\ ct2 # ct =>
                          /\ id[1] = Top.plugin2_info.store
                          /\ id[2] = Top.plugin2_info.key
                          /\ ct.rec_level = use_count[Top.func]
                          /\ ~Live(ct2) /\ ct2.stmtid = FreeStmtId
       ]_vars
  /\ []( ( /\ ncalls = 1 /\ nopens = 1 /\ nsets = 0
           /\ ~plpgsql_check_cursors_leaks_strict ) => reports = << >> )

\* a single non-strict activation has returned leaving its only cursor open
\* and its slot tracked, without any report
C10_Witness ==
  /\ pc = "run" /\ stack = << >> /\ ncalls = 1 /\ nopens = 1 /\ nsets = 0
  /\ ~plpgsql_check_cursors_leaks_strict
  /\ CursorOpen(1) /\ Tracked(heap, 1)
  /\ reports = << >>

\* the live slots of the record rec that OPEN statement s recorded
LiveOf(rec, s) ==
  { i \in 1..Len(rec.cursors_traces) :
      Live(rec.cursors_traces[i]) /\ rec.cursors_traces[i].stmtid = s }
\* those whose own cursor is still open
OpenOf(rec, s) ==
  { i \in LiveOf(rec, s) : CursorOpen(rec.cursors_traces[i].exec) }

\* every record holds at most MAX_NAMES_PER_STATEMENT live slots of one
\* statement, and at most that many slots per OPEN statement in all
CapHolds ==
  \A t \in Lxids : \A k \in DOMAIN heap[t] :
     /\ \A s \in OpenStmts :
           Cardinality(LiveOf(heap[t][k], s)) <= MAX_NAMES_PER_STATEMENT
     /\ heap[t][k].ncursors <= MAX_NAMES_PER_STATEMENT * Cardinality(OpenStmts)
     /\ Len(heap[t][k].cursors_traces) = heap[t][k].ncursors

C11_NoHookUsesDiscardedStore == uaf = FALSE

\* a StatementEnd of the running activation for a statement that is not OPEN
IsStmtEndOther == IsHookOfTop /\ ~IsOpen /\ ~IsTeardown

\* C12 as stated (only OPEN statements cause state change): a StatementEnd
\* for a statement that is not OPEN emits no report and leaves the store, its
\* guard, every record and every slot unchanged, also when the transaction
\* marker differs from the guard.
C12_OnlyOpenChangesState ==
  [][ IsStmtEndOther =>
        /\ reports' = reports
        /\ UNCHANGED << traces, traces_lxid, heap >>
    ]_vars

\* C12 as amended: a StatementEnd for a statement that is not OPEN emits no
\* report and changes no slot of an existing record.  With no record
\* associated, or with the guard equal to the transaction marker, it leaves
\* the store, the guard and the association unchanged.  With a record
\* associated and the guard different from the marker it re-resolves: the
\* store is recreated holding one empty record for the routine, the guard
\* becomes the marker and the activation is associated with that record.
C12_OnlyOpenChangesSlots ==
  [][ IsStmtEndOther =>
        LET info == stack'[Len(stack')].plugin2_info
        IN /\ reports' = reports
           /\ \A t \in Lxids : \A k \in DOMAIN heap[t] :
                 k \in DOMAIN heap'[t] /\ heap'[t][k] = heap[t][k]
           /\ IF IsNullInfo(Top.plugin2_info) \/ traces_lxid = MyProc_lxid'
              THEN /\ UNCHANGED << traces, traces_lxid, heap >>
                   /\ info = Top.plugin2_info
              ELSE /\ traces' = MyProc_lxid'
                   /\ traces_lxid' = MyProc_lxid'
                   /\ info = [store |-> MyProc_lxid', key |-> HashKey(Top.func)]
                   /\ DOMAIN heap'[MyProc_lxid'] = {info.key}
                   /\ heap'[MyProc_lxid'][info.key] = NewTrace(info.key)
    ]_vars

\* the only activation was set up in transaction 1 and recorded a slot there;
\* the StatementEnd of its COMMIT has recreated the store for transaction 2
\* and re-associated the activation, and the old record is as it was
C12_Witness ==
  /\ pc = "run" /\ ncalls = 1 /\ Len(stack) = 1
  /\ MyProc_lxid = 2 /\ traces_lxid = 2 /\ traces = 2
  /\ Top.plugin2_info.store = 2
  /\ Rec(Top.plugin2_info) = NewTrace(Top.plugin2_info.key)
  /\ nopens = 1 /\ opens[1].lxid = 1
  /\ Top.plugin2_info.key \in DOMAIN heap[1]
  /\ \E i \in 1..Len(heap[1][Top.plugin2_info.key].cursors_traces) :
        heap[1][Top.plugin2_info.key].cursors_traces[i].exec = 1

\* C13 (Teardown touches only its own level): a Teardown of an activation at
\* use-level L leaves the store, the guard, the records, their slot counts and
\* capacities unchanged and changes a slot only by clearing a live slot of the
\* activation's record whose recorded use-level is L; a Teardown that runs its
\* scan to the end with strict=true leaves no live slot of use-level L in
\* that record.
C13_TeardownOwnLevel ==
  [][ IsTeardown =>
        LET L    == use_count[Top.func]
            info == Top.plugin2_info
        IN /\ UNCHANGED << traces, traces_lxid >>
           /\ \A t \in Lxids :
                 /\ DOMAIN heap'[t] = DOMAIN heap[t]
                 /\ \A k \in DOMAIN heap[t] :
                       /\ heap'[t][k].ncursors = heap[t][k].ncursors
                       /\ heap'[t][k].cursors_size = heap[t][k].cursors_size
                       /\ heap'[t][k].key = heap[t][k].key
                       /\ Len(heap'[t][k].cursors_traces) = Len(heap[t][k].cursors_traces)
                       /\ \A i \in 1..Len(heap[t][k].cursors_traces) :
                             LET ct  == heap[t][k].cursors_traces[i]
                                 ct2 == heap'[t][k].cursors_traces[i]
                             IN ct2 # ct =>
                                   /\ t = info.store /\ k = info.key
                                   /\ Live(ct) /\ ct.rec_level = L
                                   /\ ct2 = ClearSlot(ct)
           /\ ( /\ Len(stack') < Len(stack)
                /\ plpgsql_check_cursors_leaks_strict
                /\ ~IsNullInfo(info)
                /\ traces_lxid = MyProc_lxid ) =>
                 \A i \in 1..Len(heap'[info.store][info.key].cursors_traces) :
                    LET ct2 == heap'[info.store][info.key].cursors_traces[i]
                    IN ~(Live(ct2) /\ ct2.rec_level = L)
    ]_vars

\* under strict the inner activation (use-level 2) has returned: its slot was
\* reported and cleared, the slot the outer activation recorded at use-level 1
\* is still live
C13_Witness ==
  /\ pc = "run" /\ Len(stack) = 1 /\ ncalls = 2 /\ nopens = 2
  /\ plpgsql_check_cursors_leaks_strict
  /\ opens[1].act = 1 /\ opens[2].act = 2 /\ Top.act = 1
  /\ Len(reports) = 1 /\ reports[1].hook = "func_end" /\ reports[1].exec = 2
  /\ ~IsNullInfo(Top.plugin2_info)
  /\ \E i, j \in 1..Len(Rec(Top.plugin2_info).cursors_traces) :
        LET cts == Rec(Top.plugin2_info).cursors_traces
        IN /\ Live(cts[i]) /\ cts[i].exec = 1 /\ cts[i].rec_level = 1
           /\ ~Live(cts[j]) /\ cts[j].rec_level = 2

\* the record the stmt_end scan of this OPEN step reads, and what it is after
\* the step (the hook has not re-resolved: the guard equals the marker)
ScannedBefore == heap[Top.plugin2_info.store][Top.plugin2_info.key]
ScannedAfter == heap'[Top.plugin2_info.store][Top.plugin2_info.key]
\* the slots the scan of this OPEN step finds for its statement with a cursor
\* of their name in existence
FoundOpen ==
  { i \in 1..Len(ScannedBefore.cursors_traces) :
      LET ct == ScannedBefore.cursors_traces[i]
      IN /\ Live(ct)
         /\ ct.stmtid = opens'[nopens'].stmtid
         /\ SPI_cursor_find(portals', ct.curname) }
\* the step is an OPEN whose stmt_end scans the activation's record
IsScan ==
  /\ IsOpen
  /\ ~IsNullInfo(Top.plugin2_info)
  /\ traces_lxid = MyProc_lxid
  /\ pc' # "crashed"

\* C14 as stated (statement-end report condition): StatementEnd emits a
\* report only for an OPEN, only at use-level 1 with strict off, only for a
\* live slot of the same statement whose cursor exists, and it then clears
\* that slot; at a use-level above 1 or with strict on such a slot is kept
\* unchanged and counted and no report is emitted.
C14_ReportThenClear ==
  [][ /\ IsStmtEndOther => reports' = reports
      /\ (IsOpen /\ ~IsScan) => reports' = reports
      /\ IsScan =>
           IF use_count[Top.func] = 1 /\ ~plpgsql_check_cursors_leaks_strict
           THEN \A r \in 1..Len(NewReports) :
                   /\ NewReports[r].hook = "stmt_end"
                   /\ \E i \in FoundOpen :
                         /\ ScannedBefore.cursors_traces[i].exec = NewReports[r].exec
                         /\ ScannedAfter.cursors_traces[i].exec # NewReports[r].exec
           ELSE /\ reports' = reports
                /\ \A i \in FoundOpen :
                      ScannedAfter.cursors_traces[i] = ScannedBefore.cursors_traces[i]
                /\ Tracked(heap', nopens')
                     <=> Cardinality(FoundOpen) < MAX_NAMES_PER_STATEMENT
    ]_vars

\* C14 as amended: as stated, except that the reported slot is cleared only
\* when the severity is not fatal; with a fatal severity (ERROR) the report
\* ends the hook: it is the only report of the step, the reported slot stays
\* live and unchanged, and the cursor just opened is not recorded.
C14_ReportCondition ==
  [][ /\ IsStmtEndOther => reports' = reports
      /\ (IsOpen /\ ~IsScan) => reports' = reports
      /\ IsScan =>
           IF use_count[Top.func] = 1 /\ ~plpgsql_check_cursors_leaks_strict
           THEN /\ \A r \in 1..Len(NewReports) :
                      /\ NewReports[r].hook = "stmt_end"
                      /\ \E i \in FoundOpen :
                            /\ ScannedBefore.cursors_traces[i].exec = NewReports[r].exec
                            /\ IF Fatal(plpgsql_check_cursors_leaks_level)
                               THEN ScannedAfter.cursors_traces[i] =
                                       ScannedBefore.cursors_traces[i]
                               ELSE ScannedAfter.cursors_traces[i].exec #
                                       NewReports[r].exec
                /\ (Fatal(plpgsql_check_cursors_leaks_level) /\ reports' # reports) =>
                      /\ Len(NewReports) = 1
                      /\ pc' = "error_stmt"
                      /\ ~Tracked(heap', nopens')
           ELSE /\ reports' = reports
                /\ \A i \in FoundOpen :
                      ScannedAfter.cursors_traces[i] = ScannedBefore.cursors_traces[i]
                /\ Tracked(heap', nopens')
                     <=> Cardinality(FoundOpen) < MAX_NAMES_PER_STATEMENT
    ]_vars

\* strict off, the routine has recursed: the OPEN at use-level 2 found the
\* slot of use-level 1 with its cursor open, kept it and recorded its own;
\* nothing was reported
C14_Witness ==
  /\ pc = "run" /\ Len(stack) = 2 /\ ncalls = 2 /\ nopens = 2
  /\ ~plpgsql_check_cursors_leaks_strict
  /\ stack[1].func = stack[2].func
  /\ opens[1].act = 1 /\ opens[2].act = 2
  /\ opens[1].stmtid = opens[2].stmtid
  /\ CursorOpen(1) /\ CursorOpen(2)
  /\ ~IsNullInfo(Top.plugin2_info)
  /\ \E i, j \in 1..Len(Rec(Top.plugin2_info).cursors_traces) :
        LET cts == Rec(Top.plugin2_info).cursors_traces
        IN /\ cts[i].exec = 1 /\ cts[i].rec_level = 1
           /\ cts[j].exec = 2 /\ cts[j].rec_level = 2
  /\ reports = << >>

\* count <= capacity, and the capacity is a multiple of 10
CapacityOK ==
  \A t \in Lxids : \A k \in DOMAIN heap[t] :
     /\ heap[t][k].ncursors <= heap[t][k].cursors_size
     /\ heap[t][k].cursors_size % 10 = 0
     /\ Len(heap[t][k].cursors_traces) = heap[t][k].ncursors

\* C15 (reuse before grow): count <= capacity and the capacity is a multiple
\* of 10 in every state; no step decreases the count or the capacity of a
\* record; the capacity changes only when an OPEN appends to a full list, from
\* 0 to 10 and else by 10; an OPEN that is tracked writes its slot at the
\* lowest index that is free after the scan and appends only when none is.
C15_ReuseBeforeGrow ==
  /\ []CapacityOK
  /\ [][ \A t \in Lxids : \A k \in DOMAIN heap[t] :
            LET r  == heap[t][k]
                r2 == heap'[t][k]
                n  == r.ncursors
            IN /\ k \in DOMAIN heap'[t]
               /\ r2.ncursors >= n
               /\ r2.cursors_size >= r.cursors_size
               /\ r2.cursors_size # r.cursors_size =>
                     /\ IsOpen
                     /\ n = r.cursors_size
                     /\ r2.ncursors = n + 1
                     /\ r2.cursors_traces[n + 1].exec = nopens'
                     /\ r2.cursors_size = IF r.cursors_size = 0 THEN 10
                                          ELSE r.cursors_size + 10
               /\ r2.ncursors # n =>
                     /\ IsOpen
                     /\ r2.ncursors = n + 1
                     /\ r2.cursors_traces[n + 1].exec = nopens'
                     /\ \A j \in 1..n : Live(r2.cursors_traces[j])
               /\ \A i \in 1..n :
                     (IsOpen /\ r2.cursors_traces[i].exec = nopens') =>
                        /\ r2.ncursors = n
                        /\ \A j \in 1..(i - 1) : Live(r2.cursors_traces[j])
       ]_vars

\* twelve OPENs under strict, one cursor closed in between: eleven live slots
\* in a list of capacity 20, so the list has grown once and one OPEN has
\* reused the slot of the closed cursor
C15_Witness ==
  /\ pc = "run" /\ stack # << >> /\ ~IsNullInfo(Top.plugin2_info)
  /\ nopens = 12 /\ reports = << >>
  /\ Rec(Top.plugin2_info).ncursors = 11
  /\ Rec(Top.plugin2_info).cursors_size = 20
  /\ \A i \in 1..11 : Live(Rec(Top.plugin2_info).cursors_traces[i])
  /\ Tracked(heap, 12)

\* C16 (get_or_create is a keyed lookup-or-insert): a Setup that runs with
\* detection enabled associates the record of the current store whose key is
\* the routine's oid and creation-transaction id; when that identity was
\* absent the record is new with 0 cursors, 0 capacity and no slots; when it
\* was present the record and its slots are unchanged; every other record of
\* the store is unchanged, and the store gains no other record.
C16_LookupOrInsert ==
  [][ (IsSetup /\ plpgsql_check_cursors_leaks) =>
        LET f     == stack'[Len(stack')].func
            info  == stack'[Len(stack')].plugin2_info
            key   == [fn_oid |-> f.fn_oid, fn_xmin |-> f.fn_xmin]
            fresh == traces = NULL \/ traces_lxid # MyProc_lxid
            old   == IF fresh THEN EmptyStore ELSE heap[MyProc_lxid]
            new   == heap'[MyProc_lxid]
        IN /\ info = [store |-> MyProc_lxid, key |-> key]
           /\ DOMAIN new = DOMAIN old \cup {key}
           /\ new[key].key = key
           /\ IF key \in DOMAIN old
              THEN new[key] = old[key]
              ELSE new[key] = [key |-> key, ncursors |-> 0, cursors_size |-> 0,
                               cursors_traces |-> << >>]
           /\ \A k \in DOMAIN old : k # key => new[k] = old[k]
    ]_vars

\* the routine has recursed within one transaction: both activations are
\* associated with the same record, which still holds the slot the outer
\* activation recorded
C16_Witness ==
  /\ pc = "run" /\ Len(stack) = 2 /\ ncalls = 2 /\ MyProc_lxid = 1
  /\ stack[1].func = stack[2].func
  /\ ~IsNullInfo(stack[1].plugin2_info)
  /\ stack[2].plugin2_info = stack[1].plugin2_info
  /\ nopens = 1 /\ opens[1].act = 1
  /\ Rec(Top.plugin2_info).ncursors = 1
  /\ Rec(Top.plugin2_info).cursors_traces[1].exec = 1

\* every record of hp holds at most one live slot per statement id
OneLivePerStmt(hp) ==
  \A t \in Lxids : \A k \in DOMAIN hp[t] : \A s \in OpenStmts :
     Cardinality(LiveOf(hp[t][k], s)) <= 1

\* C17 (single live slot without recursion in non-strict mode): a new record
\* has no slot, and "at most one live slot per statement id in every record"
\* is kept by every step other than the StatementEnd of an OPEN that runs
\* with strict on or at a use-level above 1; so it holds after every
\* StatementEnd as long as strict has been off and no slot was recorded above
\* use-level 1.
C17_SingleLiveSlot ==
  /\ [][ ( /\ OneLivePerStmt(heap)
           /\ ~(IsOpen /\ ( \/ plpgsql_check_cursors_leaks_strict
                            \/ use_count[Top.func] > 1 )) )
         => OneLivePerStmt(heap')
       ]_vars
  /\ []( ( /\ ~plpgsql_check_cursors_leaks_strict /\ nsets = 0
           /\ \A t \in Lxids : \A k \in DOMAIN heap[t] :
                 \A i \in 1..Len(heap[t][k].cursors_traces) :
                    heap[t][k].cursors_traces[i].rec_level = 1 )
         => OneLivePerStmt(heap) )

\* strict off, one activation: the second execution of an OPEN statement has
\* reported and cleared the slot of the first, whose cursor is still open, so
\* the record holds one live slot for the statement
C17_Witness ==
  /\ pc = "run" /\ Len(stack) = 1 /\ ncalls = 1 /\ nsets = 0
  /\ ~plpgsql_check_cursors_leaks_strict
  /\ nopens = 2 /\ opens[1].stmtid = opens[2].stmtid
  /\ CursorOpen(1) /\ CursorOpen(2)
  /\ Tracked(heap, 2) /\ ~Tracked(heap, 1)
  /\ Len(reports) = 1
  /\ OneLivePerStmt(heap)

\* the new reports of the step for the slot ct
NewReportsOf(ct) ==
  { r \in 1..Len(NewReports) :
      /\ NewReports[r].exec = ct.exec
      /\ NewReports[r].hook = "stmt_end"
      /\ NewReports[r].by = Top.act }

\* C18 as stated (leaks are matched by statement, not by activation): with
\* strict off, the StatementEnd of an OPEN at use-level 1 reports and clears
\* every live slot of the record for that statement whose cursor exists,
\* whatever use-level and activation recorded it.
C18_MatchedByStatement ==
  [][ ( /\ IsScan
        /\ ~plpgsql_check_cursors_leaks_strict
        /\ use_count[Top.func] = 1 ) =>
        /\ \A i \in FoundOpen :
              /\ Cardinality(NewReportsOf(ScannedBefore.cursors_traces[i])) = 1
              /\ ScannedAfter.cursors_traces[i].exec #
                    ScannedBefore.cursors_traces[i].exec
        /\ Len(NewReports) = Cardinality(FoundOpen)
    ]_vars

\* C18 as amended: with strict off and a severity that is not fatal, the
\* StatementEnd of an OPEN at use-level 1 reports once and clears every live
\* slot of the activation's record for that statement whose cursor exists,
\* whatever use-level and activation recorded it, and reports nothing else;
\* with a fatal severity (ERROR) it reports the first such slot only and
\* ends there, clearing none of them.
C18_MatchedByStatementNonFatal ==
  [][ ( /\ IsScan
        /\ ~plpgsql_check_cursors_leaks_strict
        /\ use_count[Top.func] = 1 ) =>
        IF ~Fatal(plpgsql_check_cursors_leaks_level)
        THEN /\ \A i \in FoundOpen :
                   /\ Cardinality(NewReportsOf(ScannedBefore.cursors_traces[i])) = 1
                   /\ ScannedAfter.cursors_traces[i].exec #
                         ScannedBefore.cursors_traces[i].exec
             /\ Len(NewReports) = Cardinality(FoundOpen)
             /\ pc' = "run"
        ELSE /\ \A i \in FoundOpen :
                   /\ ScannedAfter.cursors_traces[i] = ScannedBefore.cursors_traces[i]
                   /\ Cardinality(NewReportsOf(ScannedBefore.cursors_traces[i])) =
                         IF \A j \in FoundOpen : i <= j THEN 1 ELSE 0
             /\ Len(NewReports) = IF FoundOpen = {} THEN 0 ELSE 1
             /\ pc' = IF FoundOpen = {} THEN "run" ELSE "error_stmt"
    ]_vars

\* strict off, severity WARNING: the first activation left its cursor open and
\* returned; a second activation of the routine at use-level 1 has executed
\* the same OPEN statement, which reported the first activation's cursor and
\* cleared its slot
C18_Witness ==
  /\ pc = "run" /\ Len(stack) = 1 /\ ncalls = 2 /\ nopens = 2
  /\ ~plpgsql_check_cursors_leaks_strict
  /\ plpgsql_check_cursors_leaks_level = "WARNING"
  /\ Top.act = 2 /\ use_count[Top.func] = 1
  /\ opens[1].act = 1 /\ opens[2].act = 2
  /\ opens[1].stmtid = opens[2].stmtid
  /\ CursorOpen(1)
  /\ Len(reports) = 1
  /\ reports[1].hook = "stmt_end" /\ reports[1].exec = 1 /\ reports[1].by = 2
  /\ Tracked(heap, 2) /\ ~Tracked(heap, 1)

\* the slot ct is free, or it is as the OPEN execution it names wrote it
WellFormed(ct) ==
  /\ ct.stmtid = FreeStmtId <=> ct.curname = NULL
  /\ ct.curname # NULL =>
        /\ ct.exec \in 1..nopens
        /\ ct.stmtid = opens[ct.exec].stmtid
        /\ ct.rec_level = opens[ct.exec].level
        /\ ct.stmtid \in OpenStmts
        /\ ct.rec_level >= 1

\* C19 (slot well-formedness): in every state, every slot below the count of
\* a record has statement id -1 exactly when its name is null, and a live slot
\* has the statement id of the OPEN that recorded it, the use-level current
\* at that OPEN and a non-null name.
C19_SlotWellFormed ==
  \A t \in Lxids : \A k \in DOMAIN heap[t] :
     /\ Len(heap[t][k].cursors_traces) = heap[t][k].ncursors
     /\ \A i \in 1..heap[t][k].ncursors : WellFormed(heap[t][k].cursors_traces[i])

\* a record holds a slot that was cleared (free: statement id -1, null name)
\* beside a live slot of another statement
C19_Witness ==
  \E t \in Lxids : \E k \in DOMAIN heap[t] :
     \E i, j \in 1..heap[t][k].ncursors :
        LET cts == heap[t][k].cursors_traces
        IN /\ cts[i].stmtid = FreeStmtId /\ cts[i].curname = NULL
           /\ cts[j].curname # NULL /\ cts[j].stmtid = opens[cts[j].exec].stmtid
           /\ CursorOpen(cts[j].exec)

====
